---------------------------- MODULE Spec2Model ----------------------------
(***************************************************************************)
(* Book identity and deduplication engine of novel-library                 *)
(* (src/app/core/deduplicator.py): the title normalizer, the               *)
(* classification decision check_duplicate, the grouping service           *)
(* (group_books, ungroup_book, set_group_primary, merge_books), the        *)
(* reading operations (detect_duplicates_in_library, get_grouped_books),   *)
(* and the same operations as transactions of concurrent requests.         *)
(*                                                                         *)
(* Strings are sequences of one-character tokens.  A CJK character is      *)
(* written as the pinyin of the character:                                 *)
(*   "wan" U+5B8C  "jie" U+7ED3  "quan" U+5168  "ben" U+672C               *)
(*   "jing" U+7CBE "jiao" U+6821 "ban" U+7248   "chu" U+51FA               *)
(* and the two CJK bracket pairs as                                        *)
(*   "[[" U+3010  "]]" U+3011  (lenticular brackets)                       *)
(*   "((" U+FF08  "))" U+FF09  (fullwidth parentheses).                    *)
(***************************************************************************)
EXTENDS Integers, Sequences, FiniteSets, TLC

VARIABLES
    enabled,      \* Deduplicator.enabled (settings.deduplicator.enable)
    books,        \* table books: id -> [title, author, group_id]
    versions,     \* table book_versions: set of [book_id, file_hash]
    groups,       \* table book_groups: id -> [name, primary_book_id]
    call,         \* the last call made on the Deduplicator
    ret,          \* what that call returned
    norm_pc,      \* position of the normalizer harness
    norm_in,      \* the title handed to normalize_title
    norm_out,     \* the results of normalize_title, in the order computed
    norm_alt,     \* the result of the two stripping steps in the other order
    sessions,     \* the database sessions of the requests under way
    lock          \* the session that holds the write lock of the store

vars == <<enabled, books, versions, groups, call, ret,
          norm_pc, norm_in, norm_out, norm_alt, sessions, lock>>

catalogVars == <<enabled, books, versions, groups, call, ret>>
normVars == <<norm_pc, norm_in, norm_out, norm_alt>>
txnVars == <<sessions, lock>>

\* Python's None.  A string is a sequence of tokens, so None is a sequence
\* holding one token that no string holds.
None == <<"<None>">>

\* Python truthiness of an Optional[str]: None and "" are false.
Truthy(s) == s # None /\ s # <<>>

-----------------------------------------------------------------------------
(* Bounds of the model *)

\* Longest title handed to normalize_title.
MaxTitleLen == 5

\* Most Works and most Versions the ingested catalog holds.
MaxBooks == 2
MaxVersions == 2

\* Works of the catalog the grouping service works on.
NumBooks == 3

\* Most Groups the store holds at a time, and the longest list of ids
\* handed to group_books and merge_books.
MaxGroups == 2
MaxIds == 2

\* Requests under way at a time, and the Works of the catalog on which two
\* requests of ungroup_book meet.
MaxSessions == 2
RaceBooks == 4

-----------------------------------------------------------------------------
(* Title normalizer: Deduplicator.normalize_title *)

\* str.lower() on the characters the model uses.
LowerChar(c) ==
    CASE c = "A" -> "a"
      [] c = "B" -> "b"
      [] c = "F" -> "f"
      [] c = "X" -> "x"
      [] OTHER -> c

Lower(s) == [i \in 1..Len(s) |-> LowerChar(s[i])]

\* The list patterns_to_remove, in the order of the source.  Every pattern
\* is a literal (the backslashes only escape regex metacharacters).
patterns_to_remove == <<
    <<"[", "wan", "jie", "]">>, <<"[[", "wan", "jie", "]]">>,
    <<"(", "wan", "jie", ")">>, <<"((", "wan", "jie", "))">>,
    <<"[", "quan", "ben", "]">>, <<"[[", "quan", "ben", "]]">>,
    <<"(", "quan", "ben", ")">>, <<"((", "quan", "ben", "))">>,
    <<"[", "jing", "jiao", "ban", "]">>, <<"[[", "jing", "jiao", "ban", "]]">>,
    <<"(", "jing", "jiao", "ban", ")">>, <<"((", "jing", "jiao", "ban", "))">>,
    <<"[", "chu", "ban", "]">>, <<"[[", "chu", "ban", "]]">>,
    <<"(", "chu", "ban", ")">>, <<"((", "chu", "ban", "))">>,
    <<"_", "jing", "jiao">>, <<"-", "jing", "jiao">>, <<".", "jing", "jiao">>,
    <<"_", "wan", "ben">>, <<"-", "wan", "ben">>, <<".", "wan", "ben">>
>>

\* s[i..] starts with pat.
StartsWithAt(s, i, pat) ==
    /\ i + Len(pat) - 1 <= Len(s)
    /\ \A k \in 1..Len(pat) : s[i + k - 1] = pat[k]

\* re.sub(pat, '', s) for a literal pat: one left-to-right pass that drops
\* the leftmost non-overlapping occurrences; the result is not rescanned.
RECURSIVE SubFrom(_, _, _)
SubFrom(s, i, pat) ==
    IF i > Len(s) THEN <<>>
    ELSE IF StartsWithAt(s, i, pat) THEN SubFrom(s, i + Len(pat), pat)
    ELSE <<s[i]>> \o SubFrom(s, i + 1, pat)

ReSub(pat, s) == SubFrom(s, 1, pat)

\* for pattern in patterns_to_remove: normalized = re.sub(pattern, '', ...)
\* (re.IGNORECASE changes nothing: the string is already lower case).
RECURSIVE RemoveFrom(_, _)
RemoveFrom(s, k) ==
    IF k > Len(patterns_to_remove) THEN s
    ELSE RemoveFrom(ReSub(patterns_to_remove[k], s), k + 1)

RemoveMarkers(s) == RemoveFrom(s, 1)

\* The class [\s\-_\.] : whitespace, hyphen, underscore, period.
IsWhitespace(c) == c \in {" ", "\t"}
IsSeparator(c) == IsWhitespace(c) \/ c \in {"-", "_", "."}

\* re.sub(r'[\s\-_\.]+', '', normalized)
Collapse(s) == SelectSeq(s, LAMBDA c : ~IsSeparator(c))

\* str.strip()
RECURSIVE LStrip(_)
LStrip(s) ==
    IF s # <<>> /\ IsWhitespace(Head(s)) THEN LStrip(Tail(s)) ELSE s

RECURSIVE RStrip(_)
RStrip(s) ==
    IF s # <<>> /\ IsWhitespace(s[Len(s)])
    THEN RStrip(SubSeq(s, 1, Len(s) - 1)) ELSE s

Strip(s) == RStrip(LStrip(s))

normalize_title(title) ==
    IF ~Truthy(title) THEN <<>>
    ELSE Strip(Collapse(RemoveMarkers(Lower(title))))

\* The same steps with the separator collapsing done before the marker
\* removal.
normalize_collapse_first(title) ==
    IF ~Truthy(title) THEN <<>>
    ELSE Strip(RemoveMarkers(Collapse(Lower(title))))

-----------------------------------------------------------------------------
(* Store access *)

\* The id the store gives a new row: one more than the largest id in use
\* (an INTEGER PRIMARY KEY of the SQLite store).
MaxOf(S) == IF S = {} THEN 0 ELSE CHOOSE x \in S : \A y \in S : y <= x
NewId(used) == MaxOf(used) + 1

\* The null id (Python's None where an id is expected).
NoId == 0

\* Result.scalar_one_or_none(): the row, None, or MultipleResultsFound
\* when the query gave more than one row.
ScalarOneOrNone(rows) ==
    IF Cardinality(rows) > 1 THEN [kind |-> "raise"]
    ELSE IF rows = {} THEN [kind |-> "none"]
    ELSE [kind |-> "row", row |-> CHOOSE r \in rows : TRUE]

-----------------------------------------------------------------------------
(* Classification decision: Deduplicator.check_duplicate *)

\* settings.deduplicator.hash_algorithm
hash_algorithm == "md5"

\* calculate_file_hash: the digest depends on the bytes of the file and on
\* the algorithm, and on nothing else.  A file is given by its bytes.
calculate_file_hash(file, algorithm) == <<algorithm, file>>

\* select(BookVersion).where(BookVersion.file_hash == file_hash)
_check_hash_duplicate(vs, file_hash) ==
    LET found == ScalarOneOrNone({v \in vs : v.file_hash = file_hash})
    IN IF found.kind = "raise" THEN [raised |-> TRUE, value |-> FALSE]
       ELSE [raised |-> FALSE, value |-> found.kind = "row"]

\* Variants of _find_same_book with a plausible defect each: the strings
\* compared after str.strip(), the author not compared, the titles
\* compared after normalize_title.
_find_same_book_trimmed(bk, title, author) ==
    ScalarOneOrNone({b \in DOMAIN bk : /\ bk[b].author # None
                                       /\ Strip(bk[b].author) = Strip(author)
                                       /\ Strip(bk[b].title) = Strip(title)})

_find_same_book_any_author(bk, title, author) ==
    ScalarOneOrNone({b \in DOMAIN bk : bk[b].title = title})

_find_same_book_normalized(bk, title, author) ==
    ScalarOneOrNone({b \in DOMAIN bk :
                       /\ bk[b].author # None
                       /\ bk[b].author = author
                       /\ normalize_title(bk[b].title) = normalize_title(title)})

\* select(Book).join(Author).where(Author.name == author)
\*                          .where(Book.title == title)
\* The inner join drops the books that have no author.  The rows are book
\* ids.
_find_same_book(bk, title, author) ==
    ScalarOneOrNone({b \in DOMAIN bk : /\ bk[b].author # None
                                       /\ bk[b].author = author
                                       /\ bk[b].title = title})

Raised == [action |-> "raise", book_id |-> NoId, reason |-> "exception"]

\* Variants of check_duplicate with a plausible defect each: the
\* title/author rule tried before the digest rule, and the enable switch
\* not read.
check_duplicate_title_first(en, bk, vs, file, title, author) ==
    IF ~en THEN [action |-> "new_book", book_id |-> NoId, reason |-> "none"]
    ELSE
      LET existing_book == IF Truthy(author)
                           THEN _find_same_book(bk, title, author)
                           ELSE [kind |-> "none"]
          hash_result == _check_hash_duplicate(
                             vs, calculate_file_hash(file, hash_algorithm))
      IN IF existing_book.kind = "raise" \/ hash_result.raised THEN Raised
         ELSE IF existing_book.kind = "row"
         THEN [action |-> "add_version", book_id |-> existing_book.row,
               reason |-> "new version"]
         ELSE IF hash_result.value
         THEN [action |-> "skip", book_id |-> NoId, reason |-> "same content"]
         ELSE [action |-> "new_book", book_id |-> NoId, reason |-> "none"]

check_duplicate_always_enabled(en, bk, vs, file, title, author) ==
    LET hash_result == _check_hash_duplicate(
                           vs, calculate_file_hash(file, hash_algorithm))
        existing_book == IF Truthy(author)
                         THEN _find_same_book(bk, title, author)
                         ELSE [kind |-> "none"]
    IN IF hash_result.raised THEN Raised
       ELSE IF hash_result.value
       THEN [action |-> "skip", book_id |-> NoId, reason |-> "same content"]
       ELSE IF existing_book.kind = "raise" THEN Raised
       ELSE IF existing_book.kind = "row"
       THEN [action |-> "add_version", book_id |-> existing_book.row,
             reason |-> "new version"]
       ELSE [action |-> "new_book", book_id |-> NoId, reason |-> "none"]

check_duplicate(en, bk, vs, file, title, author) ==
    IF ~en THEN [action |-> "new_book", book_id |-> NoId, reason |-> "none"]
    ELSE
      LET file_hash == calculate_file_hash(file, hash_algorithm)
          hash_result == _check_hash_duplicate(vs, file_hash)
      IN IF hash_result.raised THEN Raised
         ELSE IF hash_result.value
         THEN [action |-> "skip", book_id |-> NoId, reason |-> "same content"]
         ELSE
           LET existing_book == IF Truthy(author)
                                THEN _find_same_book(bk, title, author)
                                ELSE [kind |-> "none"]
           IN IF existing_book.kind = "raise" THEN Raised
              ELSE IF existing_book.kind = "row"
              THEN [action |-> "add_version", book_id |-> existing_book.row,
                    reason |-> "new version"]
              ELSE [action |-> "new_book", book_id |-> NoId, reason |-> "none"]

\* is_duplicate: the older shape of the same decision.
is_duplicate(en, bk, vs, file, title, author) ==
    LET r == check_duplicate(en, bk, vs, file, title, author)
    IN IF r.action = "raise" THEN r
       ELSE [action |-> r.action, skip |-> r.action = "skip",
             reason |-> r.reason]

-----------------------------------------------------------------------------
(* The catalog under ingestion.  The ingestion pipeline and the metadata   *)
(* editor are callers of the engine; they are modelled from the data model *)
(* (Work and Version lifecycles) and from the uniqueness constraint on the *)
(* digest of a Version.                                                    *)

T_Foo == <<"F", "o", "o">>
T_FooComplete == <<"F", "o", "o", " ", "[", "wan", "jie", "]">>
T_SpaceFoo == <<" ", "F", "o", "o">>
T_Bar == <<"B", "a", "r">>
A_X == <<"X">>

\* Titles and authors the extraction layer supplies.
TitleInputs == {T_Foo, T_FooComplete, T_SpaceFoo, T_Bar}
AuthorInputs == {A_X, <<>>, None}

\* Files, by their bytes.
FileInputs == {"bytes1", "bytes2", "bytes3"}

InsertVersion(vs, book_id, file_hash) ==
    vs \cup {[id |-> NewId({v.id : v \in vs}),
              book_id |-> book_id, file_hash |-> file_hash]}

InsertBook(bk, title, author) ==
    LET id == NewId(DOMAIN bk)
    IN [b \in DOMAIN bk \cup {id} |->
          IF b = id THEN [title |-> title,
                          author |-> IF Truthy(author) THEN author ELSE None,
                          group_id |-> NoId]
          ELSE bk[b]]

\* No call is being answered: the last one has returned to its caller.
Idle == call.op = "none"

\* The value of the last call has gone to the caller.
Return ==
    /\ ~Idle
    /\ call' = [op |-> "none"]
    /\ ret' = [status |-> "none"]
    /\ UNCHANGED <<enabled, books, versions, groups>>
    /\ UNCHANGED <<normVars, txnVars>>

\* One file goes through classify-then-insert.  A digest already in the
\* store makes the insert fail on the uniqueness constraint, which counts
\* as a skip.
IngestFile(file, title, author) ==
    LET r == check_duplicate(enabled, books, versions, file, title, author)
        file_hash == calculate_file_hash(file, hash_algorithm)
        taken == \E v \in versions : v.file_hash = file_hash
    IN /\ Idle
       /\ Cardinality(versions) < MaxVersions
       /\ r.action = "new_book" => Cardinality(DOMAIN books) < MaxBooks
       /\ IF r.action = "add_version" /\ ~taken
          THEN /\ versions' = InsertVersion(versions, r.book_id, file_hash)
               /\ books' = books
          ELSE IF r.action = "new_book" /\ ~taken
          THEN /\ books' = InsertBook(books, title, author)
               /\ versions' = InsertVersion(versions, NewId(DOMAIN books),
                                            file_hash)
          ELSE UNCHANGED <<books, versions>>
       /\ call' = [op |-> "ingest", file |-> file, title |-> title,
                   author |-> author]
       /\ ret' = r
       /\ UNCHANGED <<enabled, groups>>
       /\ UNCHANGED <<normVars, txnVars>>

\* The title of a Work is corrected after the fact.
CorrectTitle(b, title) ==
    /\ Idle
    /\ b \in DOMAIN books
    /\ books[b].title # title
    /\ books' = [books EXCEPT ![b].title = title]
    /\ call' = [op |-> "correct_title", book_id |-> b, title |-> title]
    /\ ret' = [status |-> "success"]
    /\ UNCHANGED <<enabled, versions, groups>>
    /\ UNCHANGED <<normVars, txnVars>>

\* The operation itself: it reads the catalog and returns its decision.
CheckDuplicate(file, title, author) ==
    /\ Idle
    /\ call' = [op |-> "check_duplicate", file |-> file, title |-> title,
                author |-> author]
    /\ ret' = check_duplicate(enabled, books, versions, file, title, author)
    /\ UNCHANGED <<enabled, books, versions, groups>>
    /\ UNCHANGED <<normVars, txnVars>>

\* Sessions of concurrent requests: none is open in this harness.
SessionIds == 1..MaxSessions
NoSession == 0
TxnIdle ==
    /\ sessions = [s \in SessionIds |-> [pc |-> "idle"]]
    /\ lock = NoSession

NormIdle ==
    /\ norm_pc = "idle"
    /\ norm_in = <<>>
    /\ norm_out = <<>>
    /\ norm_alt = <<>>

InitClassify ==
    /\ enabled \in BOOLEAN
    /\ books = <<>>
    /\ versions = {}
    /\ groups = <<>>
    /\ call = [op |-> "none"]
    /\ ret = [status |-> "none"]
    /\ NormIdle
    /\ TxnIdle

NextClassify ==
    \/ \E f \in FileInputs, t \in TitleInputs, a \in AuthorInputs :
          IngestFile(f, t, a)
    \/ \E b \in DOMAIN books, t \in TitleInputs : CorrectTitle(b, t)
    \/ \E f \in FileInputs, t \in TitleInputs, a \in AuthorInputs :
          CheckDuplicate(f, t, a)
    \/ Return

SpecClassify == InitClassify /\ [][NextClassify]_vars

-----------------------------------------------------------------------------
(* Claims about the classification decision.  The action the source calls  *)
(* 'new_book' is the specification's 'new_work'.                           *)

\* The last call was check_duplicate (the catalog is the one it read: the
\* call changes nothing).
Classified == call.op = "check_duplicate"

\* Some Version of the catalog has the digest of the file of the call.
DigestCataloged ==
    \E v \in versions :
        v.file_hash = calculate_file_hash(call.file, hash_algorithm)

\* The Works whose title and author name are the strings of the call,
\* character for character.
ExactMatches ==
    {b \in DOMAIN books : /\ books[b].author # None
                          /\ books[b].author = call.author
                          /\ books[b].title = call.title}

\* The Works whose title and author name equal the strings of the call
\* once surrounding whitespace is trimmed.
TrimmedMatches ==
    {b \in DOMAIN books : /\ books[b].author # None
                          /\ Strip(books[b].author) = Strip(call.author)
                          /\ Strip(books[b].title) = Strip(call.title)}

\* C1: with deduplication enabled, check_duplicate on a file whose digest
\* is the digest of an existing Version returns 'skip', whatever title and
\* author are supplied, also when a Work with that title and author exists.
C1_DigestRuleWins ==
    (Classified /\ enabled /\ DigestCataloged)
        => (ret.action = "skip" /\ ret.book_id = NoId)

C1_Witness ==
    /\ Classified /\ enabled /\ DigestCataloged
    /\ ExactMatches # {}
    /\ ret.action = "skip"

\* C2 as claimed: with deduplication enabled, no Version with the digest
\* and an author supplied, check_duplicate returns ('add_version', W.id)
\* for a Work W whose title and author equal the supplied ones after
\* trimming surrounding whitespace.
C2_AddVersionPostTrim ==
    (Classified /\ enabled /\ ~DigestCataloged /\ Truthy(call.author))
        => \A b \in TrimmedMatches :
              ret.action = "add_version" /\ ret.book_id = b

\* C2 as amended: under the same conditions check_duplicate returns
\* ('add_version', W.id) when exactly one Work W has the supplied title and
\* author character for character (nothing is trimmed); when several Works
\* do, the single-row lookup raises and nothing is returned.
C2_AddVersionExact ==
    (Classified /\ enabled /\ ~DigestCataloged /\ Truthy(call.author))
        => /\ Cardinality(ExactMatches) = 1
                => (ret.action = "add_version" /\ ret.book_id \in ExactMatches)
           /\ Cardinality(ExactMatches) > 1 => ret.action = "raise"

C2_Witness ==
    /\ Classified /\ enabled /\ ~DigestCataloged /\ Truthy(call.author)
    /\ Cardinality(ExactMatches) = 1
    /\ TrimmedMatches # ExactMatches
    /\ ret.action = "add_version"

\* C3: with deduplication enabled and no Version with the digest,
\* check_duplicate returns 'new_book' with a null work id when no author is
\* supplied (None or empty) or when no Work has exactly the supplied title
\* and author; a missing author gives 'new_book' even if a Work with the
\* same title exists.
C3_NewWork ==
    (/\ Classified /\ enabled /\ ~DigestCataloged
     /\ (~Truthy(call.author) \/ ExactMatches = {}))
        => (ret.action = "new_book" /\ ret.book_id = NoId)

C3_Witness ==
    /\ Classified /\ enabled /\ ~DigestCataloged
    /\ ~Truthy(call.author)
    /\ \E b \in DOMAIN books : books[b].title = call.title
    /\ ret.action = "new_book"

\* C4: with deduplication disabled, check_duplicate returns 'new_book' with
\* a null work id for every file, title, author and catalog, also when the
\* digest is cataloged or a Work with the same title and author exists.
C4_DisabledAlwaysNewWork ==
    (Classified /\ ~enabled)
        => (ret.action = "new_book" /\ ret.book_id = NoId)

C4_Witness ==
    /\ Classified /\ ~enabled
    /\ DigestCataloged
    /\ ExactMatches # {}
    /\ ret.action = "new_book"

\* The catalog of the ingestion scenario: one Work A, titled "Foo [wan jie]"
\* (the completion marker in square brackets) by "X", with one Version,
\* whose digest is that of bytes1.
ScenarioCatalog ==
    /\ enabled
    /\ DOMAIN books = {1}
    /\ books[1].title = T_FooComplete
    /\ books[1].author = A_X
    /\ {[book_id |-> v.book_id, file_hash |-> v.file_hash] : v \in versions}
         = {[book_id |-> 1,
             file_hash |-> calculate_file_hash("bytes1", hash_algorithm)]}

ScenarioSameDigest == call.file = "bytes1"
ScenarioFoo ==
    call.file = "bytes2" /\ call.title = T_Foo /\ call.author = A_X
ScenarioFooComplete ==
    call.file = "bytes2" /\ call.title = T_FooComplete /\ call.author = A_X
ScenarioBar ==
    call.file = "bytes3" /\ call.title = T_Bar /\ call.author = A_X

\* C5 as claimed: in the scenario catalog a file with the digest of A's
\* Version is skipped under any title; a file with another digest, title
\* "Foo" and author "X" gives 'add_version' with work id A; a file with a
\* third digest, title "Bar" and author "X" gives 'new_book'.
C5_ScenarioAsClaimed ==
    (Classified /\ ScenarioCatalog)
        => /\ ScenarioSameDigest => ret.action = "skip"
           /\ ScenarioFoo => (ret.action = "add_version" /\ ret.book_id = 1)
           /\ ScenarioBar => ret.action = "new_book"

\* C5 as amended: as claimed, except that title "Foo" with author "X" gives
\* 'new_book' with a null work id, because "Foo" is not the title of A;
\* 'add_version' with work id A is what the exact title of A gives.
C5_ScenarioExactTitle ==
    (Classified /\ ScenarioCatalog)
        => /\ ScenarioSameDigest => ret.action = "skip"
           /\ ScenarioFoo => (ret.action = "new_book" /\ ret.book_id = NoId)
           /\ ScenarioFooComplete
                => (ret.action = "add_version" /\ ret.book_id = 1)
           /\ ScenarioBar => (ret.action = "new_book" /\ ret.book_id = NoId)

C5_Witness ==
    /\ Classified /\ ScenarioCatalog /\ ScenarioFoo
    /\ ret.action = "new_book"

\* C28: with deduplication enabled, check_duplicate returns 'skip',
\* 'add_version' or 'new_book' in every catalog that can be reached, also
\* one in which two Works have the same title and author; it does not
\* raise from a lookup that expects a single row.
C28_ClassifyTotal ==
    (enabled /\ call.op = "check_duplicate")
        => ret.action \in {"skip", "add_version", "new_book"}

-----------------------------------------------------------------------------
(* Catalog grouping service: group_books, ungroup_book, set_group_primary, *)
(* merge_books.  Each operator takes the tables as the call finds them and *)
(* gives the tables as committed, with the value returned.                 *)

\* The elements of a list.
Elements(seq) == {seq[i] : i \in 1..Len(seq)}

\* A variant of WithPrimary with a plausible defect: the list is taken as
\* it was handed in.
WithPrimaryOmitted(primary_book_id, book_ids) == book_ids

\* if primary_book_id not in book_ids: book_ids.append(primary_book_id)
WithPrimary(primary_book_id, book_ids) ==
    IF primary_book_id \in Elements(book_ids) THEN book_ids
    ELSE Append(book_ids, primary_book_id)

\* A variant of FirstGroupId with a plausible defect: the loop does not
\* break, so the group of the last book that has one is taken.
RECURSIVE FirstGroupIdNoBreak(_, _, _)
FirstGroupIdNoBreak(bk, ids, i) ==
    IF i > Len(ids) THEN NoId
    ELSE LET later == FirstGroupIdNoBreak(bk, ids, i + 1)
         IN IF later # NoId THEN later
            ELSE IF ids[i] \in DOMAIN bk THEN bk[ids[i]].group_id
            ELSE NoId

\* The loop that looks for a group: the group_id of the first book of the
\* list that exists and has one (at which the loop breaks), else NoId.
RECURSIVE FirstGroupId(_, _, _)
FirstGroupId(bk, ids, i) ==
    IF i > Len(ids) THEN NoId
    ELSE IF ids[i] \in DOMAIN bk /\ bk[ids[i]].group_id # NoId
    THEN bk[ids[i]].group_id
    ELSE FirstGroupId(bk, ids, i + 1)

\* A variant of BooksToAdd with a plausible defect: every listed book that
\* exists is counted and assigned, also one that is already in the group.
BooksToAddUnchecked(bk, ids, gid) == Elements(ids) \cap DOMAIN bk

\* The loop that fills the group: the listed books that exist and whose
\* group_id is not the group's.  A book listed twice is assigned at its
\* first occurrence and passes the test no more at the second.
BooksToAdd(bk, ids, gid) ==
    {b \in Elements(ids) \cap DOMAIN bk : bk[b].group_id # gid}

\* A variant of NewGroupName with a plausible defect: the name is stored
\* as it was handed in, also when none was.
NewGroupNameAsGiven(group_name, title) == group_name

\* name=group_name or primary_book.title
NewGroupName(group_name, title) ==
    IF Truthy(group_name) THEN group_name ELSE title

group_books(bk, gr, primary_book_id, book_ids, group_name) ==
    IF primary_book_id \notin DOMAIN bk
    THEN [books |-> bk, groups |-> gr,
          ret |-> [status |-> "error", message |-> "no primary book"]]
    ELSE
      LET ids == WithPrimary(primary_book_id, book_ids)
          found == FirstGroupId(bk, ids, 1)
          \* book.group is None when no row has the id
          existing_group == found # NoId /\ found \in DOMAIN gr
          gid == IF existing_group THEN found ELSE NewId(DOMAIN gr)
          name == IF existing_group
                  THEN IF Truthy(group_name) THEN group_name
                       ELSE gr[gid].name
                  ELSE NewGroupName(group_name, bk[primary_book_id].title)
          added == BooksToAdd(bk, ids, gid)
      IN [books |-> [b \in DOMAIN bk |->
                       IF b \in added THEN [bk[b] EXCEPT !.group_id = gid]
                       ELSE bk[b]],
          groups |-> [g \in DOMAIN gr \cup {gid} |->
                       IF g = gid
                       THEN [name |-> name,
                             primary_book_id |-> primary_book_id]
                       ELSE gr[g]],
          ret |-> [status |-> "success", group_id |-> gid,
                   group_name |-> name,
                   primary_book_id |-> primary_book_id,
                   book_count |-> Len(ids),
                   added_count |-> Cardinality(added)]]

\* len(b.versions)
VersionCount(vs, b) == Cardinality({v \in vs : v.book_id = b})

\* The rows of a query on books, in the order the store gives them: by id.
RECURSIVE SortedIds(_)
SortedIds(S) ==
    IF S = {} THEN <<>>
    ELSE LET m == CHOOSE x \in S : \A y \in S : x <= y
         IN <<m>> \o SortedIds(S \ {m})

\* A variant of MaxBy with a plausible defect: of several books with the
\* largest key the last of the list is taken.
RECURSIVE MaxByLast(_, _, _)
MaxByLast(vs, ids, i) ==
    IF i = Len(ids) THEN ids[i]
    ELSE LET rest == MaxByLast(vs, ids, i + 1)
         IN IF VersionCount(vs, ids[i]) > VersionCount(vs, rest)
            THEN ids[i] ELSE rest

\* max(remaining_books, key=...): the first of the list with the largest
\* key.
RECURSIVE MaxBy(_, _, _)
MaxBy(vs, ids, i) ==
    IF i = Len(ids) THEN ids[i]
    ELSE LET rest == MaxBy(vs, ids, i + 1)
         IN IF VersionCount(vs, ids[i]) >= VersionCount(vs, rest)
            THEN ids[i] ELSE rest

\* A variant of HasGroup with a plausible defect: the test of the group
\* reference is left out.
HasGroupUntested(bk, book_id) == TRUE

\* if not book.group_id: ... (the test negated)
HasGroup(bk, book_id) == bk[book_id].group_id # NoId

\* A variant of Dissolves with a plausible defect: only the empty group is
\* deleted.
DissolvesWhenEmpty(remaining_books) == Len(remaining_books) = 0

\* The two branches that delete the group: no book remains, or one.
Dissolves(remaining_books) == Len(remaining_books) <= 1

\* A variant of ClearedOnUngroup with a plausible defect: the one book
\* that remains keeps its group_id when the group is deleted.
ClearedOnUngroupSelf(remaining_books, book_id) == {book_id}

\* The books whose group_id is set to None: the book itself, and the one
\* that remains when the group is deleted.
ClearedOnUngroup(remaining_books, book_id) ==
    IF Dissolves(remaining_books)
    THEN Elements(remaining_books) \cup {book_id}
    ELSE {book_id}

\* ungroup_book from "book.group_id = None" to the commit, for the group
\* and the was_primary flag the session holds from its first query.
ungroup_remaining(bk, gr, vs, book_id, group_id, was_primary) ==
    LET remaining_books ==
            SortedIds({b \in DOMAIN bk \ {book_id} :
                         bk[b].group_id = group_id})
        dissolved == Dissolves(remaining_books)
        cleared == ClearedOnUngroup(remaining_books, book_id)
    IN [books |-> [b \in DOMAIN bk |->
                     IF b \in cleared THEN [bk[b] EXCEPT !.group_id = NoId]
                     ELSE bk[b]],
        groups |->
           IF dissolved
           THEN [g \in DOMAIN gr \ {group_id} |-> gr[g]]
           ELSE IF was_primary /\ group_id \in DOMAIN gr
           THEN [gr EXCEPT ![group_id].primary_book_id =
                                MaxBy(vs, remaining_books, 1)]
           ELSE gr,
        ret |-> [status |-> "success", book_id |-> book_id,
                 was_primary |-> was_primary],
        deleted |-> IF dissolved THEN group_id ELSE NoId]

ungroup_book(bk, gr, vs, book_id) ==
    IF book_id \notin DOMAIN bk
    THEN [books |-> bk, groups |-> gr,
          ret |-> [status |-> "error", message |-> "no such book"]]
    ELSE IF ~HasGroup(bk, book_id)
    THEN [books |-> bk, groups |-> gr,
          ret |-> [status |-> "error", message |-> "book in no group"]]
    ELSE IF bk[book_id].group_id \notin DOMAIN gr
    THEN \* book.group is None: group.id raises, nothing is committed
         [books |-> bk, groups |-> gr, ret |-> [status |-> "raise"]]
    ELSE
      LET group_id == bk[book_id].group_id
          was_primary == gr[group_id].primary_book_id = book_id
      IN ungroup_remaining(bk, gr, vs, book_id, group_id, was_primary)

\* A variant of set_group_primary with a plausible defect: the book is
\* looked up by its id alone, not by its id and its group.
set_group_primary_any_book(bk, gr, group_id, book_id) ==
    IF group_id \notin DOMAIN gr
    THEN [books |-> bk, groups |-> gr,
          ret |-> [status |-> "error", message |-> "no such group"]]
    ELSE IF book_id \notin DOMAIN bk
    THEN [books |-> bk, groups |-> gr,
          ret |-> [status |-> "error", message |-> "book not in group"]]
    ELSE [books |-> bk,
          groups |-> [gr EXCEPT ![group_id].primary_book_id = book_id],
          ret |-> [status |-> "success", group_id |-> group_id,
                   primary_book_id |-> book_id]]

set_group_primary(bk, gr, group_id, book_id) ==
    IF group_id \notin DOMAIN gr
    THEN [books |-> bk, groups |-> gr,
          ret |-> [status |-> "error", message |-> "no such group"]]
    ELSE IF ~(book_id \in DOMAIN bk /\ bk[book_id].group_id = group_id)
    THEN [books |-> bk, groups |-> gr,
          ret |-> [status |-> "error", message |-> "book not in group"]]
    ELSE [books |-> bk,
          groups |-> [gr EXCEPT ![group_id].primary_book_id = book_id],
          ret |-> [status |-> "success", group_id |-> group_id,
                   primary_book_id |-> book_id]]

\* A variant of merge_books with a plausible defect: the list is handed on
\* without the kept book in front, so that group_books appends it.
merge_books_keep_last(bk, gr, keep_book_id, merge_book_ids) ==
    LET result == group_books(bk, gr, keep_book_id, merge_book_ids, None)
    IN IF result.ret.status = "success"
       THEN [result EXCEPT !.ret =
                [status |-> "success", keep_book_id |-> keep_book_id,
                 merged_version_count |-> result.ret.added_count,
                 skipped_duplicate_count |-> 0,
                 group_id |-> result.ret.group_id]]
       ELSE result

merge_books(bk, gr, keep_book_id, merge_book_ids) ==
    LET result == group_books(bk, gr, keep_book_id,
                              <<keep_book_id>> \o merge_book_ids, None)
    IN IF result.ret.status = "success"
       THEN [result EXCEPT !.ret =
                [status |-> "success", keep_book_id |-> keep_book_id,
                 merged_version_count |-> result.ret.added_count,
                 skipped_duplicate_count |-> 0,
                 group_id |-> result.ret.group_id]]
       ELSE result

-----------------------------------------------------------------------------
(* The reading operations: detect_duplicates_in_library and                *)
(* get_grouped_books.  They run queries and build their answer; neither    *)
(* assigns to a row, adds one, deletes one or commits.                     *)

\* Book.library_id: every Work of the model is in library 1.
library_id(b) == 1

\* Book.added_at: Works get their ids in the order they are added.
added_at(b) == b

\* BookVersion.file_size, by the id of the Version.
FileSizes == <<30, 10, 20, 25, 1>>
file_size(v) == IF v.id \in DOMAIN FileSizes THEN FileSizes[v.id] ELSE 1

\* sum(v.file_size for v in b.versions)
RECURSIVE SumSizes(_)
SumSizes(S) ==
    IF S = {} THEN 0
    ELSE LET v == CHOOSE x \in S : TRUE
         IN file_size(v) + SumSizes(S \ {v})

\* A variant of ClusterKey with a plausible defect: the author's name is
\* taken as it is spelled.
ClusterKeyCaseSensitive(bk, b) ==
    normalize_title(bk[b].title) \o <<"|">>
        \o (IF bk[b].author = None THEN <<>> ELSE bk[b].author)

\* f"{normalized_title}|{author_name.lower()}"
ClusterKey(bk, b) ==
    normalize_title(bk[b].title) \o <<"|">>
        \o Lower(IF bk[b].author = None THEN <<>> ELSE bk[b].author)

\* b.group and b.group.primary_book_id == b.id, under "if b.group_id"
IsGroupPrimary(bk, gr, b) ==
    /\ bk[b].group_id # NoId
    /\ bk[b].group_id \in DOMAIN gr
    /\ gr[bk[b].group_id].primary_book_id = b

\* get_priority(b)
get_priority(bk, vs, gr, b) ==
    LET mine == {v \in vs : v.book_id = b}
    IN <<IF IsGroupPrimary(bk, gr, b) THEN 1 ELSE 0,
         Cardinality(mine),
         MaxOf({file_size(v) : v \in mine}),
         0 - added_at(b)>>

\* Python's order of tuples of four numbers: p < q.
TupleLess(p, q) ==
    \E i \in 1..4 : p[i] < q[i] /\ \A j \in 1..(i - 1) : p[j] = q[j]

\* max(group_books, key=get_priority): the first of the list that no
\* other exceeds.
RECURSIVE MaxPriority(_, _, _, _, _)
MaxPriority(bk, vs, gr, ids, i) ==
    IF i = Len(ids) THEN ids[i]
    ELSE LET rest == MaxPriority(bk, vs, gr, ids, i + 1)
         IN IF TupleLess(get_priority(bk, vs, gr, ids[i]),
                         get_priority(bk, vs, gr, rest))
            THEN rest ELSE ids[i]

\* A variant of AllInOneGroup with a plausible defect: the books that are
\* in no group are not looked at.
AllInOneGroupOfGrouped(bk, members) ==
    Cardinality({bk[b].group_id : b \in members} \ {NoId}) = 1

\* The test that passes over a cluster: all its books are in one group.
AllInOneGroup(bk, members) ==
    /\ Cardinality({bk[b].group_id : b \in members} \ {NoId}) = 1
    /\ \A b \in members : bk[b].group_id # NoId

\* The clusters for the books of the list from position i on whose key
\* has not come up before, in the order the keys come up.
RECURSIVE Clusters(_, _, _, _, _)
Clusters(bk, vs, gr, ids, i) ==
    IF i > Len(ids) THEN <<>>
    ELSE LET key == ClusterKey(bk, ids[i])
             seen == \E j \in 1..(i - 1) : ClusterKey(bk, ids[j]) = key
             members == {b \in Elements(ids) : ClusterKey(bk, b) = key}
             rest == Clusters(bk, vs, gr, ids, i + 1)
         IN IF seen \/ Cardinality(members) <= 1
               \/ AllInOneGroup(bk, members)
            THEN rest
            ELSE <<[key |-> key,
                    books |-> SortedIds(members),
                    suggested_primary_id |->
                        MaxPriority(bk, vs, gr, SortedIds(members), 1),
                    reason |-> "same title and author"]>> \o rest

detect_duplicates_in_library(bk, vs, gr, lib, similarity_threshold) ==
    LET found == SortedIds({b \in DOMAIN bk : library_id(b) = lib})
    IN Clusters(bk, vs, gr, found, 1)

\* A variant of get_grouped_books with a plausible defect: the book that
\* is marked as the current one is the primary of the group.
get_grouped_books_current_primary(bk, vs, gr, book_id) ==
    IF book_id \notin DOMAIN bk \/ bk[book_id].group_id = NoId
    THEN <<>>
    ELSE IF bk[book_id].group_id \notin DOMAIN gr
    THEN <<[raise |-> "AttributeError"]>>
    ELSE LET grouped_books ==
                 SortedIds({b \in DOMAIN bk :
                              bk[b].group_id = bk[book_id].group_id})
             group == gr[bk[book_id].group_id]
         IN [i \in 1..Len(grouped_books) |->
               LET b == grouped_books[i]
               IN [id |-> b,
                   title |-> bk[b].title,
                   author_name |-> bk[b].author,
                   version_count |-> VersionCount(vs, b),
                   total_size |-> SumSizes({v \in vs : v.book_id = b}),
                   is_primary |-> group.primary_book_id = b,
                   is_current |-> group.primary_book_id = b]]

get_grouped_books(bk, vs, gr, book_id) ==
    IF book_id \notin DOMAIN bk \/ bk[book_id].group_id = NoId
    THEN <<>>
    ELSE IF bk[book_id].group_id \notin DOMAIN gr
    THEN \* book.group is None: group.primary_book_id raises
         <<[raise |-> "AttributeError"]>>
    ELSE LET grouped_books ==
                 SortedIds({b \in DOMAIN bk :
                              bk[b].group_id = bk[book_id].group_id})
             group == gr[bk[book_id].group_id]
         IN [i \in 1..Len(grouped_books) |->
               LET b == grouped_books[i]
               IN [id |-> b,
                   title |-> bk[b].title,
                   author_name |-> bk[b].author,
                   version_count |-> VersionCount(vs, b),
                   total_size |-> SumSizes({v \in vs : v.book_id = b}),
                   is_primary |-> group.primary_book_id = b,
                   is_current |-> b = book_id]]

-----------------------------------------------------------------------------
(* The grouping service at work on a catalog of NumBooks Works.            *)

\* Ids handed to the service: those of the Works, and one of no Work.
IdInputs == 1..(NumBooks + 1)

\* The lists of ids handed to group_books and merge_books.
RECURSIVE ListsUpTo(_)
ListsUpTo(n) ==
    IF n = 0 THEN {<<>>}
    ELSE LET shorter == ListsUpTo(n - 1)
         IN shorter \cup {Append(l, b) : l \in {t \in shorter : Len(t) = n - 1},
                                          b \in IdInputs}

IdListInputs == ListsUpTo(MaxIds)

N_Saga == <<"S", "a", "g", "a">>
GroupNameInputs == {None, N_Saga}

GroupIdInputs == 1..(MaxGroups + 1)

\* The titles of the Works, by id (Works 1 and 3 have the same title).
Titles == <<T_Foo, T_Bar>>

\* The Versions of the Works: one of Work 1, two each of Works 2 and 3,
\* one of Work 4.
InitialVersions ==
    {[id |-> 1, book_id |-> 1, file_hash |-> <<"md5", "bytes1">>],
     [id |-> 2, book_id |-> 2, file_hash |-> <<"md5", "bytes2">>],
     [id |-> 3, book_id |-> 2, file_hash |-> <<"md5", "bytes3">>],
     [id |-> 4, book_id |-> 3, file_hash |-> <<"md5", "bytes4">>],
     [id |-> 5, book_id |-> 3, file_hash |-> <<"md5", "bytes5">>],
     [id |-> 6, book_id |-> 4, file_hash |-> <<"md5", "bytes6">>]}

Init ==
    /\ enabled = TRUE
    /\ books = [b \in 1..NumBooks |->
                  [title |-> Titles[((b - 1) % Len(Titles)) + 1],
                   author |-> A_X, group_id |-> NoId]]
    /\ versions = {v \in InitialVersions : v.book_id <= NumBooks}
    /\ groups = <<>>
    /\ call = [op |-> "none"]
    /\ ret = [status |-> "none"]
    /\ NormIdle
    /\ TxnIdle

Commit(result) ==
    /\ books' = result.books
    /\ groups' = result.groups
    /\ ret' = result.ret
    /\ UNCHANGED <<enabled, versions>>
    /\ UNCHANGED <<normVars, txnVars>>

GroupBooks(primary_book_id, book_ids, group_name) ==
    LET result == group_books(books, groups, primary_book_id, book_ids,
                              group_name)
    IN /\ Idle
       /\ DOMAIN result.groups \subseteq 1..MaxGroups
       /\ call' = [op |-> "group_books",
                   primary_book_id |-> primary_book_id,
                   book_ids |-> book_ids, group_name |-> group_name]
       /\ Commit(result)

MergeBooks(keep_book_id, merge_book_ids) ==
    LET result == merge_books(books, groups, keep_book_id, merge_book_ids)
    IN /\ Idle
       /\ DOMAIN result.groups \subseteq 1..MaxGroups
       /\ call' = [op |-> "merge_books", keep_book_id |-> keep_book_id,
                   merge_book_ids |-> merge_book_ids]
       /\ Commit(result)

UngroupBook(book_id) ==
    /\ Idle
    /\ call' = [op |-> "ungroup_book", book_id |-> book_id]
    /\ Commit(ungroup_book(books, groups, versions, book_id))

SetGroupPrimary(group_id, book_id) ==
    /\ Idle
    /\ call' = [op |-> "set_group_primary", group_id |-> group_id,
                book_id |-> book_id]
    /\ Commit(set_group_primary(books, groups, group_id, book_id))

\* Libraries asked for: the one the Works are in, and one with no Work.
LibraryInputs == {1, 2}

\* Thresholds handed to the scan, in hundredths.
ThresholdInputs == {85, 50}

\* What a reading operation leaves behind: the tables as they were.
ReadOnly ==
    /\ UNCHANGED <<enabled, books, versions, groups>>
    /\ UNCHANGED <<normVars, txnVars>>

IsDuplicate(file, title, author) ==
    /\ Idle
    /\ call' = [op |-> "is_duplicate", file |-> file, title |-> title,
                author |-> author]
    /\ ret' = is_duplicate(enabled, books, versions, file, title, author)
    /\ ReadOnly

\* A variant of DetectDuplicates with a plausible defect: the first
\* cluster found is grouped at once under its suggested primary.
DetectDuplicatesGrouping(lib, similarity_threshold) ==
    LET found == detect_duplicates_in_library(books, versions, groups, lib,
                                              similarity_threshold)
        result == group_books(books, groups, found[1].suggested_primary_id,
                              found[1].books, None)
    IN /\ Idle
       /\ call' = [op |-> "detect_duplicates_in_library",
                   library_id |-> lib,
                   similarity_threshold |-> similarity_threshold]
       /\ ret' = [status |-> "list", clusters |-> found]
       /\ IF found # <<>> /\ DOMAIN result.groups \subseteq 1..MaxGroups
          THEN /\ books' = result.books
               /\ groups' = result.groups
               /\ UNCHANGED <<enabled, versions>>
               /\ UNCHANGED <<normVars, txnVars>>
          ELSE ReadOnly

DetectDuplicates(lib, similarity_threshold) ==
    /\ Idle
    /\ call' = [op |-> "detect_duplicates_in_library", library_id |-> lib,
                similarity_threshold |-> similarity_threshold]
    /\ ret' = [status |-> "list",
               clusters |-> detect_duplicates_in_library(
                                books, versions, groups, lib,
                                similarity_threshold)]
    /\ ReadOnly

GetGroupedBooks(book_id) ==
    /\ Idle
    /\ call' = [op |-> "get_grouped_books", book_id |-> book_id]
    /\ ret' = [status |-> "list",
               entries |-> get_grouped_books(books, versions, groups,
                                             book_id)]
    /\ ReadOnly

Next ==
    \/ \E p \in IdInputs, ids \in IdListInputs, n \in GroupNameInputs :
          GroupBooks(p, ids, n)
    \/ \E k \in IdInputs, ids \in IdListInputs : MergeBooks(k, ids)
    \/ \E b \in IdInputs : UngroupBook(b)
    \/ \E g \in GroupIdInputs, b \in IdInputs : SetGroupPrimary(g, b)
    \/ \E f \in FileInputs, t \in TitleInputs, a \in AuthorInputs :
          CheckDuplicate(f, t, a)
    \/ \E f \in FileInputs, t \in TitleInputs, a \in AuthorInputs :
          IsDuplicate(f, t, a)
    \/ \E l \in LibraryInputs, t \in ThresholdInputs : DetectDuplicates(l, t)
    \/ \E b \in IdInputs : GetGroupedBooks(b)
    \/ Return

Spec == Init /\ [][Next]_vars

-----------------------------------------------------------------------------
(* Claims about the grouping service *)

\* The Works that refer to group g.
Members(g) == {b \in DOMAIN books : books[b].group_id = g}

\* C8: group_books is idempotent: after a call that succeeded, the same
\* call made again at once reports added_count = 0 and leaves every
\* Work's group reference, the set of Groups and each Group's primary and
\* name as they are.
C8_GroupIdempotent ==
    (call.op = "group_books" /\ ret.status = "success")
        => LET again == group_books(books, groups, call.primary_book_id,
                                    call.book_ids, call.group_name)
           IN /\ again.ret.status = "success"
              /\ again.ret.added_count = 0
              /\ again.books = books
              /\ again.groups = groups

\* A call of group_books has just put two Works into a Group that now has
\* three members.
C8_Witness ==
    /\ call.op = "group_books" /\ ret.status = "success"
    /\ ret.added_count >= 2
    /\ Cardinality(Members(ret.group_id)) >= 3

\* C9: the primary of every Group is a member of that Group: the Work it
\* names refers to the Group.
C9_PrimaryIsMember ==
    \A g \in DOMAIN groups : groups[g].primary_book_id \in Members(g)

\* C10: every Group has at least two members.
C10_AtLeastTwoMembers ==
    \A g \in DOMAIN groups : Cardinality(Members(g)) >= 2

\* The call now returning: a step of the service that takes it.
Calls(op) == call.op = "none" /\ call'.op = op

\* The Works other than w that refer to group g before the step.
Remaining(g, w) == {b \in DOMAIN books \ {w} : books[b].group_id = g}

\* The Works that refer to group g after the step.
MembersAfter(g) == {b \in DOMAIN books' : books'[b].group_id = g}

\* C11: ungroup cleanup: after a successful ungroup_book of a Work w that
\* was in Group G, w has no group reference; if no member remains G is
\* deleted; if exactly one remains G is deleted and the group reference of
\* that Work is cleared; G does not exist with exactly one member after
\* the call.
C11_UngroupCleanup ==
    [][(Calls("ungroup_book") /\ ret'.status = "success")
        => LET w == call'.book_id
               G == books[w].group_id
           IN /\ G # NoId
              /\ books'[w].group_id = NoId
              /\ Cardinality(Remaining(G, w)) = 0 => G \notin DOMAIN groups'
              /\ Cardinality(Remaining(G, w)) = 1
                    => /\ G \notin DOMAIN groups'
                       /\ \A b \in Remaining(G, w) :
                              books'[b].group_id = NoId
              /\ G \in DOMAIN groups'
                    => Cardinality(MembersAfter(G)) # 1]_vars

\* ungroup_book has just dissolved a Group of two: the Work it was called
\* for and the other member are both without a group reference, and no
\* Group is left.
C11_Witness ==
    /\ call.op = "ungroup_book" /\ ret.status = "success"
    /\ call.book_id = 1
    /\ books[1].group_id = NoId /\ books[2].group_id = NoId
    /\ books[3].group_id = NoId
    /\ groups = <<>>
    /\ ~ret.was_primary

C13_UngroupNotFound ==
    [][Calls("ungroup_book")
        => LET w == call'.book_id
           IN /\ (w \notin DOMAIN books \/ books[w].group_id = NoId)
                    => /\ ret'.status = "error"
                       /\ books' = books
                       /\ groups' = groups
              /\ (w \in DOMAIN books /\ ret'.status = "success"
                     /\ Cardinality(Remaining(books[w].group_id, w)) = 1)
                    => \A r \in Remaining(books[w].group_id, w) :
                          LET second == ungroup_book(books', groups',
                                                     versions', r)
                          IN /\ second.ret.status = "error"
                             /\ second.books = books'
                             /\ second.groups = groups']_vars

\* ungroup_book has just refused a Work that exists and is in no Group,
\* while a Group of other Works stands.
C13_Witness ==
    /\ call.op = "ungroup_book" /\ ret.status = "error"
    /\ call.book_id \in DOMAIN books
    /\ books[call.book_id].group_id = NoId
    /\ groups # <<>>

\* C14: set_group_primary returns an error and leaves the primary of the
\* Group as it is when the Group does not exist or the Work is not a
\* member of it; when it succeeds the primary of the Group is the Work,
\* and no Work's group reference changes.
C14_SetPrimary ==
    [][Calls("set_group_primary")
        => LET g == call'.group_id
               w == call'.book_id
           IN /\ books' = books
              /\ DOMAIN groups' = DOMAIN groups
              /\ \A h \in DOMAIN groups \ {g} : groups'[h] = groups[h]
              /\ (g \notin DOMAIN groups \/ w \notin Members(g))
                    => (ret'.status = "error" /\ groups' = groups)
              /\ (g \in DOMAIN groups /\ w \in Members(g))
                    => /\ ret'.status = "success"
                       /\ groups'[g].primary_book_id = w
                       /\ groups'[g].name = groups[g].name]_vars

\* set_group_primary has just refused a Work that is a member of another
\* Group than the one named.
C14_Witness ==
    /\ call.op = "set_group_primary" /\ ret.status = "error"
    /\ call.group_id \in DOMAIN groups
    /\ call.book_id \in DOMAIN books
    /\ books[call.book_id].group_id \in DOMAIN groups \ {call.group_id}

\* C15: merge_books(keep, others) does what group_books(keep,
\* [keep] + others) does: from the same catalog both leave the same
\* Groups, primaries, names and group references, and both succeed or
\* both fail.
C15_MergeIsGroup ==
    [][Calls("merge_books")
        => LET same == group_books(books, groups, call'.keep_book_id,
                                   <<call'.keep_book_id>>
                                       \o call'.merge_book_ids, None)
           IN /\ books' = same.books
              /\ groups' = same.groups
              /\ ret'.status = same.ret.status
              /\ ret'.status = "success"
                    => /\ ret'.group_id = same.ret.group_id
                       /\ ret'.merged_version_count
                             = same.ret.added_count]_vars

\* merge_books has just moved a Work of one Group into the Group of the
\* kept Work, while both Groups stand.
C15_Witness ==
    /\ call.op = "merge_books" /\ ret.status = "success"
    /\ ret.merged_version_count >= 1
    /\ Cardinality(DOMAIN groups) = 2
    /\ books[call.keep_book_id].group_id = ret.group_id
    /\ \E b \in Elements(call.merge_book_ids) \cap DOMAIN books :
          books[b].group_id = ret.group_id

\* C19: a grouping call that names a Work or a Group that does not exist
\* returns a failure with a message: group_books and merge_books for a
\* primary that does not exist and for any other listed id that does not
\* exist, ungroup_book for its Work, set_group_primary for its Group and
\* its Work.
C19_NotFoundReported ==
    LET Failure == ret.status = "error" /\ "message" \in DOMAIN ret
    IN /\ (call.op = "group_books"
             /\ ~(Elements(call.book_ids) \cup {call.primary_book_id}
                     \subseteq DOMAIN books))
          => Failure
       /\ (call.op = "merge_books"
             /\ ~(Elements(call.merge_book_ids) \cup {call.keep_book_id}
                     \subseteq DOMAIN books))
          => Failure
       /\ (call.op = "ungroup_book" /\ call.book_id \notin DOMAIN books)
          => Failure
       /\ (call.op = "set_group_primary"
             /\ (call.group_id \notin DOMAIN groups
                    \/ call.book_id \notin DOMAIN books))
          => Failure

\* C20: the reading operations change nothing in the catalog: over a call
\* of check_duplicate, is_duplicate, detect_duplicates_in_library or
\* get_grouped_books the Works, the Versions and the Groups, every Work's
\* group reference and every Group's primary and name stay as they were.
C20_ReadsChangeNothing ==
    [][(\/ Calls("check_duplicate")
        \/ Calls("is_duplicate")
        \/ Calls("detect_duplicates_in_library")
        \/ Calls("get_grouped_books"))
        => /\ books' = books
           /\ versions' = versions
           /\ groups' = groups]_vars

\* detect_duplicates_in_library has just proposed a cluster of two Works
\* of which one is in a Group and the other in none.
C20_Witness ==
    /\ call.op = "detect_duplicates_in_library"
    /\ Len(ret.clusters) = 1
    /\ ret.clusters[1].books = <<1, 3>>
    /\ books[1].group_id # NoId
    /\ books[3].group_id = NoId

\* The list the call of group_books works on: the ids handed in, with the
\* primary put last when it is not among them.
ListOf(c) ==
    IF \E i \in 1..Len(c.book_ids) : c.book_ids[i] = c.primary_book_id
    THEN c.book_ids
    ELSE c.book_ids \o <<c.primary_book_id>>

\* The positions of the list at which a Work stands that is in a Group
\* before the step.
GroupedAt(ids) ==
    {i \in 1..Len(ids) :
        ids[i] \in DOMAIN books /\ books[ids[i]].group_id # NoId}

\* The Group of the first Work of the list that is in one.
TargetOf(ids) ==
    books[ids[CHOOSE i \in GroupedAt(ids) :
                  \A j \in GroupedAt(ids) : i <= j]].group_id

\* A call of group_books that succeeds has just been made.
Grouped == Calls("group_books") /\ ret'.status = "success"

C23_NewGroupCreated ==
    [][(Grouped /\ GroupedAt(ListOf(call')) = {})
          => /\ Cardinality(DOMAIN groups') = Cardinality(DOMAIN groups) + 1
             /\ \E g \in DOMAIN groups' \ DOMAIN groups :
                   /\ DOMAIN groups' = DOMAIN groups \cup {g}
                   /\ ret'.group_id = g
                   /\ groups'[g].primary_book_id = call'.primary_book_id
                   /\ groups'[g].name
                         = IF call'.group_name # None THEN call'.group_name
                           ELSE books[call'.primary_book_id].title
             /\ \A g \in DOMAIN groups : groups'[g] = groups[g]]_vars

\* A call without a name has created the second Group for two Works that
\* were in none, and the Group has the title of its primary as name.
C23_Witness ==
    /\ call.op = "group_books" /\ ret.status = "success"
    /\ call.group_name = None
    /\ ret.group_id = 2 /\ ret.added_count = 2
    /\ Cardinality(DOMAIN groups) = 2
    /\ Members(1) # {}
    /\ groups[2].primary_book_id = call.primary_book_id
    /\ groups[2].name = books[call.primary_book_id].title

\* C24: after a call of group_books that succeeds, every Work listed, the
\* primary among them, refers to the target Group, every other Work
\* refers to what it referred to, no Work has come or gone or changed
\* otherwise, and added_count is the number of Works listed that did not
\* refer to the target before, each counted once.
C24_MembersAssigned ==
    [][Grouped
          => LET listed == {b \in DOMAIN books :
                              \E i \in 1..Len(ListOf(call')) :
                                  ListOf(call')[i] = b}
                 target == ret'.group_id
             IN /\ DOMAIN books' = DOMAIN books
                /\ call'.primary_book_id \in listed
                /\ \A b \in listed :
                      books'[b] = [books[b] EXCEPT !.group_id = target]
                /\ \A b \in DOMAIN books \ listed : books'[b] = books[b]
                /\ ret'.added_count
                      = Cardinality({b \in listed :
                                        books[b].group_id # target})]_vars

\* A call naming one Work twice has added it to the Group of the primary,
\* counting it once, while a Work not named stays in another Group.
C24_Witness ==
    /\ call.op = "group_books" /\ ret.status = "success"
    /\ Len(call.book_ids) = 2
    /\ call.book_ids[1] = call.book_ids[2]
    /\ call.book_ids[1] \in DOMAIN books
    /\ call.book_ids[1] # call.primary_book_id
    /\ ret.added_count = 1
    /\ \E b \in DOMAIN books :
          books[b].group_id \notin {NoId, ret.group_id}

\* C29: the book_count a successful call of group_books returns is the
\* number of Works that refer to the Group returned once the call is
\* over: also when a Group with members outside the list is reused, when
\* an id is listed twice, and when an id of no Work is listed.
C29_BookCountIsMembers ==
    (call.op = "group_books" /\ ret.status = "success")
        => ret.book_count = Cardinality(Members(ret.group_id))

\* C30: after any sequence of calls of group_books, merge_books,
\* ungroup_book and set_group_primary, every Work that refers to a Group
\* refers to one that exists, and the Works and the Versions are those
\* the catalog started with: no call has deleted one.
C30_NoDanglingReference ==
    /\ \A b \in DOMAIN books :
          books[b].group_id # NoId => books[b].group_id \in DOMAIN groups
    /\ DOMAIN books = 1..NumBooks
    /\ \A b \in DOMAIN books :
          /\ books[b].title = Titles[((b - 1) % Len(Titles)) + 1]
          /\ books[b].author = A_X
    /\ versions = {v \in InitialVersions : v.book_id <= NumBooks}

\* ungroup_book has just deleted the first Group, which was down to one
\* Work besides the one taken out, while the second Group is there.
C30_Witness ==
    /\ call.op = "ungroup_book" /\ ret.status = "success"
    /\ DOMAIN groups = {2}
    /\ Members(2) # {}
    /\ Cardinality({b \in DOMAIN books : books[b].group_id = NoId}) >= 2

-----------------------------------------------------------------------------
(* The operations as transactions.  Every request has a session of its own *)
(* (get_db).  The queries a session runs before it has written anything    *)
(* read the committed tables; its first flush begins the transaction of    *)
(* the store and takes the write lock, which it holds until it commits or  *)
(* is closed.  What it has flushed is in the tables only after the commit. *)

\* The first queries of group_books: the primary book, then the books of
\* the list until one has a group.
LoadGroup(bk, gr, primary_book_id, book_ids, group_name) ==
    IF primary_book_id \notin DOMAIN bk
    THEN [pc |-> "done", op |-> "group_books",
          ret |-> [status |-> "error", message |-> "no primary book"]]
    ELSE LET ids == WithPrimary(primary_book_id, book_ids)
             found == FirstGroupId(bk, ids, 1)
         IN [pc |-> "loaded", op |-> "group_books",
             primary_book_id |-> primary_book_id, book_ids |-> ids,
             group_name |-> group_name,
             group_id |-> IF found \in DOMAIN gr THEN found ELSE NoId,
             title |-> bk[primary_book_id].title]

\* The first query of ungroup_book and the tests on its row.
LoadUngroup(bk, gr, book_id) ==
    IF book_id \notin DOMAIN bk
    THEN [pc |-> "done", op |-> "ungroup_book",
          ret |-> [status |-> "error", message |-> "no such book"]]
    ELSE IF ~HasGroup(bk, book_id)
    THEN [pc |-> "done", op |-> "ungroup_book",
          ret |-> [status |-> "error", message |-> "book in no group"]]
    ELSE IF bk[book_id].group_id \notin DOMAIN gr
    THEN [pc |-> "done", op |-> "ungroup_book", ret |-> [status |-> "raise"]]
    ELSE [pc |-> "loaded", op |-> "ungroup_book", book_id |-> book_id,
          group_id |-> bk[book_id].group_id,
          was_primary |-> gr[bk[book_id].group_id].primary_book_id = book_id]

\* The two queries of set_group_primary.
LoadSetPrimary(bk, gr, group_id, book_id) ==
    LET checked == set_group_primary(bk, gr, group_id, book_id)
    IN IF checked.ret.status = "error"
       THEN [pc |-> "done", op |-> "set_group_primary", ret |-> checked.ret]
       ELSE [pc |-> "loaded", op |-> "set_group_primary",
             group_id |-> group_id, book_id |-> book_id]

\* classify-then-insert begins: the decision of check_duplicate on the
\* committed tables.  A skip, or an error of the lookups, ends the request.
LoadIngest(en, bk, vs, file, title, author) ==
    LET r == check_duplicate(en, bk, vs, file, title, author)
    IN IF r.action \in {"skip", "raise"}
       THEN [pc |-> "done", op |-> "ingest", file |-> file,
             planned |-> r.action, ret |-> r]
       ELSE [pc |-> "loaded", op |-> "ingest", file |-> file,
             title |-> title, author |-> author, planned |-> r.action,
             book_id |-> r.book_id,
             file_hash |-> calculate_file_hash(file, hash_algorithm)]

\* A variant of DigestTaken with a plausible defect: the table has no
\* uniqueness constraint on the digest.
DigestTakenUnchecked(vs, file_hash) == FALSE

\* The uniqueness constraint of the store on the digest of a Version: an
\* insert of a digest the table holds is refused.
DigestTaken(vs, file_hash) == \E v \in vs : v.file_hash = file_hash

\* What the first flush of the session writes, on the tables as the store
\* has them then.  An UPDATE of a row that is gone raises StaleDataError.
FirstWrites(se, bk, gr, vs) ==
    CASE se.op = "group_books" ->
           IF se.group_id # NoId
           THEN IF se.group_id \notin DOMAIN gr
                THEN [outcome |-> "raise"]
                ELSE [outcome |-> "flushed", books |-> bk, versions |-> vs,
                      groups |->
                        [gr EXCEPT ![se.group_id] =
                           [name |-> IF Truthy(se.group_name)
                                     THEN se.group_name ELSE @.name,
                            primary_book_id |-> se.primary_book_id]]]
           ELSE LET gid == NewId(DOMAIN gr)
                IN [outcome |-> "flushed", books |-> bk, versions |-> vs,
                    groups |->
                      [g \in DOMAIN gr \cup {gid} |->
                         IF g = gid
                         THEN [name |-> IF Truthy(se.group_name)
                                        THEN se.group_name ELSE se.title,
                               primary_book_id |-> se.primary_book_id]
                         ELSE gr[g]]]
      [] se.op = "ungroup_book" ->
           [outcome |-> "flushed", groups |-> gr, versions |-> vs,
            books |-> [bk EXCEPT ![se.book_id].group_id = NoId]]
      [] se.op = "ingest" ->
           [outcome |-> "flushed", groups |-> gr, versions |-> vs,
            books |-> IF se.planned = "new_book"
                      THEN InsertBook(bk, se.title, se.author) ELSE bk]
      [] se.op = "set_group_primary" ->
           IF se.group_id \notin DOMAIN gr
           THEN [outcome |-> "raise"]
           ELSE [outcome |-> "pending", books |-> bk, versions |-> vs,
                 groups |-> [gr EXCEPT ![se.group_id].primary_book_id =
                                           se.book_id],
                 ret |-> [status |-> "success", group_id |-> se.group_id,
                          primary_book_id |-> se.book_id]]

\* What the session has written when it comes to its commit: the first
\* flush and the rest of the operation, on the tables as the store has
\* them while the session holds the lock.
AllWrites(se, bk, gr, vs) ==
    CASE se.op = "group_books" ->
           LET gid == IF se.group_id # NoId THEN se.group_id
                      ELSE NewId(DOMAIN gr)
               first == FirstWrites(se, bk, gr, vs)
               added == BooksToAdd(bk, se.book_ids, gid)
           IN [outcome |-> "pending", versions |-> vs,
               groups |-> first.groups,
               books |-> [b \in DOMAIN bk |->
                            IF b \in added
                            THEN [bk[b] EXCEPT !.group_id = gid]
                            ELSE bk[b]],
               ret |-> [status |-> "success", group_id |-> gid,
                        group_name |-> first.groups[gid].name,
                        primary_book_id |-> se.primary_book_id,
                        book_count |-> Len(se.book_ids),
                        added_count |-> Cardinality(added)],
               deleted |-> NoId]
      [] se.op = "ungroup_book" ->
           LET result == ungroup_remaining(bk, gr, vs, se.book_id,
                                           se.group_id, se.was_primary)
           IN [outcome |-> "pending", versions |-> vs,
               books |-> result.books, groups |-> result.groups,
               ret |-> result.ret, deleted |-> result.deleted]
      [] se.op = "ingest" ->
           IF DigestTaken(vs, se.file_hash)
           THEN [outcome |-> "skip"]
           ELSE LET first == FirstWrites(se, bk, gr, vs)
                    owner == IF se.planned = "new_book"
                             THEN NewId(DOMAIN bk) ELSE se.book_id
                IN [outcome |-> "pending", groups |-> gr,
                    books |-> first.books,
                    versions |-> InsertVersion(vs, owner, se.file_hash),
                    ret |-> [action |-> se.planned, book_id |-> se.book_id,
                             reason |-> None],
                    deleted |-> NoId]

\* A variant of Rollback with a plausible defect: what the session had
\* flushed stays in the tables.
RollbackKeepsFlushed(se, bk, gr, vs) ==
    IF se.pc \in {"flushed", "pending"}
    THEN [books |-> se.dirty.books, groups |-> se.dirty.groups,
          versions |-> se.dirty.versions]
    ELSE [books |-> bk, groups |-> gr, versions |-> vs]

\* The session is closed without a commit: the transaction of the store
\* is rolled back, and the tables are as they were committed.
Rollback(se, bk, gr, vs) == [books |-> bk, groups |-> gr, versions |-> vs]

TxnFrame ==
    /\ UNCHANGED <<enabled, call, ret>>
    /\ UNCHANGED normVars

GroupLoad(s, primary_book_id, book_ids, group_name) ==
    /\ sessions[s].pc = "idle"
    /\ sessions' = [sessions EXCEPT ![s] =
                       LoadGroup(books, groups, primary_book_id, book_ids,
                                 group_name)]
    /\ UNCHANGED <<books, groups, versions, lock>>
    /\ TxnFrame

UngroupLoad(s, book_id) ==
    /\ sessions[s].pc = "idle"
    /\ sessions' = [sessions EXCEPT ![s] = LoadUngroup(books, groups, book_id)]
    /\ UNCHANGED <<books, groups, versions, lock>>
    /\ TxnFrame

SetPrimaryLoad(s, group_id, book_id) ==
    /\ sessions[s].pc = "idle"
    /\ sessions' = [sessions EXCEPT ![s] =
                       LoadSetPrimary(books, groups, group_id, book_id)]
    /\ UNCHANGED <<books, groups, versions, lock>>
    /\ TxnFrame

IngestLoad(s, file, title, author) ==
    /\ sessions[s].pc = "idle"
    /\ sessions' = [sessions EXCEPT ![s] =
                       LoadIngest(enabled, books, versions, file, title,
                                  author)]
    /\ UNCHANGED <<books, groups, versions, lock>>
    /\ TxnFrame

\* The first flush: the session takes the write lock, which no other
\* session may hold, and its first writes are in its transaction.
TxnFlush(s) ==
    LET se == sessions[s]
        w == FirstWrites(se, books, groups, versions)
    IN /\ se.pc = "loaded"
       /\ lock = NoSession
       /\ w.outcome # "raise"
       /\ w.outcome = "flushed" => DOMAIN w.groups \subseteq 1..MaxGroups
       /\ se.op = "ingest" => /\ DOMAIN w.books \subseteq 1..MaxBooks
                               /\ Cardinality(versions) < MaxVersions
       /\ lock' = s
       /\ sessions' = [sessions EXCEPT ![s] =
             [se EXCEPT !.pc = w.outcome] @@
             [dirty |-> [books |-> w.books, groups |-> w.groups,
                         versions |-> w.versions],
              deleted |-> NoId,
              ret |-> IF w.outcome = "pending" THEN w.ret
                      ELSE [status |-> "none"]]]
       /\ UNCHANGED <<books, groups, versions>>
       /\ TxnFrame

\* The rest of the operation, up to its commit.  An insert the store
\* refuses for its digest is taken as a skip: the session is rolled back
\* and the request ends.
TxnComplete(s) ==
    LET se == sessions[s]
        w == AllWrites(se, books, groups, versions)
    IN /\ se.pc = "flushed"
       /\ lock = s
       /\ IF w.outcome = "pending"
          THEN /\ sessions' = [sessions EXCEPT ![s] =
                     [se EXCEPT !.pc = "pending",
                                !.dirty = [books |-> w.books,
                                           groups |-> w.groups,
                                           versions |-> w.versions],
                                !.deleted = w.deleted,
                                !.ret = w.ret]]
               /\ UNCHANGED lock
          ELSE /\ sessions' = [sessions EXCEPT ![s] =
                     [pc |-> "done", op |-> se.op, file |-> se.file,
                      planned |-> se.planned,
                      ret |-> [action |-> "skip", book_id |-> NoId,
                               reason |-> "digest refused by the store"]]]
               /\ lock' = NoSession
       /\ UNCHANGED <<books, groups, versions>>
       /\ TxnFrame

\* await self.db.commit()
TxnCommit(s) ==
    LET se == sessions[s]
    IN /\ se.pc = "pending"
       /\ lock = s
       /\ books' = se.dirty.books
       /\ groups' = se.dirty.groups
       /\ versions' = se.dirty.versions
       /\ lock' = NoSession
       /\ sessions' = [sessions EXCEPT ![s].pc = "done"]
       /\ TxnFrame

\* The call ends in an exception before its commit has gone through: a
\* write finds its row gone, the store is locked for too long, the
\* connection breaks, the request is cancelled.  get_db closes the session.
TxnFail(s) ==
    LET se == sessions[s]
        after == Rollback(se, books, groups, versions)
    IN /\ se.pc \in {"loaded", "flushed", "pending"}
       /\ books' = after.books
       /\ groups' = after.groups
       /\ versions' = after.versions
       /\ lock' = IF lock = s THEN NoSession ELSE lock
       /\ sessions' = [sessions EXCEPT ![s] =
             [pc |-> "done", op |-> se.op, ret |-> [status |-> "raise"],
              failed_at |-> se.pc]]
       /\ TxnFrame

\* The request is over.
TxnReturn(s) ==
    /\ sessions[s].pc = "done"
    /\ sessions' = [sessions EXCEPT ![s] = [pc |-> "idle"]]
    /\ UNCHANGED <<books, groups, versions, lock>>
    /\ TxnFrame

\* One request at a time, each call taken step by step, with the failures
\* that can end it.
AtomicSessions == {1}

NextAtomic ==
    \E s \in AtomicSessions :
       \/ \E p \in IdInputs, ids \in IdListInputs, n \in GroupNameInputs :
             GroupLoad(s, p, ids, n)
       \/ \E b \in IdInputs : UngroupLoad(s, b)
       \/ \E g \in GroupIdInputs, b \in IdInputs : SetPrimaryLoad(s, g, b)
       \/ TxnFlush(s)
       \/ TxnComplete(s)
       \/ TxnCommit(s)
       \/ TxnFail(s)
       \/ TxnReturn(s)

SpecAtomic == Init /\ [][NextAtomic]_vars

\* The whole of the call a session is in, on the tables as given.
WholeCall(se, bk, gr, vs) ==
    CASE se.op = "group_books" ->
           group_books(bk, gr, se.primary_book_id, se.book_ids,
                       se.group_name)
      [] se.op = "ungroup_book" -> ungroup_book(bk, gr, vs, se.book_id)
      [] se.op = "set_group_primary" ->
           set_group_primary(bk, gr, se.group_id, se.book_id)

\* C16: every call of group_books, ungroup_book and set_group_primary
\* applies all of its changes or none: the committed tables change only in
\* the step in which a call commits, and then to what the whole call
\* makes of them; a call that fails on the way, also after its new Group
\* was flushed, leaves no new Group, no reassigned Work and no changed
\* primary in them.
C16_AllOrNothing ==
    [][\A s \in AtomicSessions :
          IF /\ sessions[s].pc = "pending"
             /\ sessions'[s].pc = "done"
             /\ sessions'[s].ret.status = "success"
          THEN LET whole == WholeCall(sessions[s], books, groups, versions)
               IN /\ whole.ret.status = "success"
                  /\ books' = whole.books
                  /\ groups' = whole.groups
                  /\ versions' = versions
          ELSE /\ books' = books
               /\ groups' = groups
               /\ versions' = versions]_vars

\* A call of group_books has failed after the flush that inserted its new
\* Group, while it was assigning the Works, and the tables hold no Group
\* and no Work with a group reference.
C16_Witness ==
    /\ sessions[1].pc = "done"
    /\ sessions[1].op = "group_books"
    /\ sessions[1].ret.status = "raise"
    /\ sessions[1].failed_at = "flushed"
    /\ groups = <<>>
    /\ \A b \in DOMAIN books : books[b].group_id = NoId

-----------------------------------------------------------------------------
(* Two requests of ungroup_book at a time, on a catalog of RaceBooks Works *)
(* of which two or more are in Group 1.                                    *)

\* The catalog after group_books(primary, members) on Works in no Group.
InitRace ==
    /\ enabled = TRUE
    /\ \E members \in SUBSET (1..RaceBooks) :
         /\ Cardinality(members) >= 2
         /\ books = [b \in 1..RaceBooks |->
                       [title |-> Titles[((b - 1) % Len(Titles)) + 1],
                        author |-> A_X,
                        group_id |-> IF b \in members THEN 1 ELSE NoId]]
         /\ \E primary \in members :
               groups = <<[name |-> Titles[((primary - 1) % Len(Titles)) + 1],
                           primary_book_id |-> primary]>>
    /\ versions = {v \in InitialVersions : v.book_id <= RaceBooks}
    /\ call = [op |-> "none"]
    /\ ret = [status |-> "none"]
    /\ NormIdle
    /\ TxnIdle

NextRace ==
    \E s \in SessionIds :
       \/ \E b \in 1..RaceBooks : UngroupLoad(s, b)
       \/ TxnFlush(s)
       \/ TxnComplete(s)
       \/ TxnCommit(s)
       \/ TxnFail(s)
       \/ TxnReturn(s)

SpecRace == InitRace /\ [][NextRace]_vars

\* Session s has committed an ungroup_book.
Ungrouped(s) ==
    /\ sessions[s].pc = "done"
    /\ sessions[s].op = "ungroup_book"
    /\ sessions[s].ret.status = "success"

\* C17: of two ungroup_book calls on different members of one Group that
\* run as interleaved transactions, not both decide to delete the Group;
\* and when both have committed, the Group does not exist or has at least
\* two members with its primary among them.
C17_ConcurrentUngroup ==
    \A s, t \in SessionIds :
       (s # t /\ Ungrouped(s) /\ Ungrouped(t)
          /\ sessions[s].group_id = sessions[t].group_id
          /\ sessions[s].book_id # sessions[t].book_id)
       => LET g == sessions[s].group_id
          IN /\ ~(sessions[s].deleted = g /\ sessions[t].deleted = g)
             /\ g \in DOMAIN groups
                   => /\ Cardinality(Members(g)) >= 2
                      /\ groups[g].primary_book_id \in Members(g)

-----------------------------------------------------------------------------
(* Two requests of classify-then-insert at a time, on an empty catalog.    *)

IngestFiles == {"bytes1", "bytes2"}
IngestTitles == {T_Foo, T_Bar}
IngestAuthors == {A_X, None}

NextIngest ==
    \E s \in SessionIds :
       \/ \E f \in IngestFiles, t \in IngestTitles, a \in IngestAuthors :
             IngestLoad(s, f, t, a)
       \/ TxnFlush(s)
       \/ TxnComplete(s)
       \/ TxnCommit(s)
       \/ TxnFail(s)
       \/ TxnReturn(s)

SpecIngest == InitClassify /\ [][NextIngest]_vars

\* Session s has classified its file as one to insert and is through.
Inserting(s) ==
    /\ sessions[s].pc = "done"
    /\ sessions[s].op = "ingest"
    /\ "action" \in DOMAIN sessions[s].ret
    /\ sessions[s].planned \in {"new_book", "add_version"}

\* C18: no two Versions of the catalog have the same digest, in every
\* state, also when two classify-then-insert sequences for files of the
\* same bytes both run their digest lookup before either inserts; the
\* insert that loses is taken as a skip.
C18_DigestsUnique ==
    /\ \A v, w \in versions : v.file_hash = w.file_hash => v = w
    /\ \A s, t \in SessionIds :
          (s # t /\ Inserting(s) /\ Inserting(t)
             /\ sessions[s].file = sessions[t].file)
          => \/ sessions[s].ret.action = "skip"
             \/ sessions[t].ret.action = "skip"

\* Two requests have classified files of the same bytes as new Works; one
\* has inserted its Work and Version, the other was refused and has ended
\* as a skip, and the catalog holds one Version.
C18_Witness ==
    /\ enabled
    /\ Inserting(1) /\ Inserting(2)
    /\ sessions[1].file = sessions[2].file
    /\ sessions[1].planned = "new_book" /\ sessions[2].planned = "new_book"
    /\ sessions[1].ret.action = "new_book"
    /\ sessions[2].ret.action = "skip"
    /\ Cardinality(versions) = 1
    /\ Cardinality(DOMAIN books) = 1

-----------------------------------------------------------------------------
(* The scan and the member list at work on catalogs whose Works differ in  *)
(* the spelling of title and author.                                       *)

T_FooUnder == <<"f", "o", "o", "_">>
A_XLower == <<"x">>

\* The titles and authors Work b may carry: Work 1 is ("Foo", "X").
ScanTitles(b) ==
    IF b = 1 THEN {T_Foo}
    ELSE IF b = 2 THEN {T_FooUnder, T_Bar}
    ELSE {T_Foo, T_Bar}

ScanAuthors(b) ==
    IF b = 1 THEN {A_X}
    ELSE IF b = 2 THEN {A_XLower, None}
    ELSE {A_X, None}

ScanCatalogs ==
    {bk \in [1..NumBooks ->
               [title : {T_Foo, T_FooUnder, T_Bar},
                author : {A_X, A_XLower, None},
                group_id : {NoId}]] :
        \A b \in 1..NumBooks :
            bk[b].title \in ScanTitles(b) /\ bk[b].author \in ScanAuthors(b)}

InitScan ==
    /\ enabled = TRUE
    /\ books \in ScanCatalogs
    /\ versions = {v \in InitialVersions : v.book_id <= NumBooks}
    /\ groups = <<>>
    /\ call = [op |-> "none"]
    /\ ret = [status |-> "none"]
    /\ NormIdle
    /\ TxnIdle

\* The grouping calls that shape the catalog before a scan: a primary and
\* at most one more Work, no name.
NextScan ==
    \/ \E p \in 1..NumBooks, ids \in {l \in IdListInputs : Len(l) <= 1} :
          GroupBooks(p, ids, None)
    \/ \E b \in 1..NumBooks : UngroupBook(b)
    \/ \E l \in LibraryInputs, t \in ThresholdInputs : DetectDuplicates(l, t)
    \/ \E b \in IdInputs : GetGroupedBooks(b)
    \/ Return

SpecScan == InitScan /\ [][NextScan]_vars

\* The Works of library l.
InLibrary(l) == {b \in DOMAIN books : library_id(b) = l}

\* The key of Work b as the scan is said to form it: the normalized title,
\* a bar, and the author's name in lower case (nothing for no author).
KeyOf(b) ==
    normalize_title(books[b].title) \o <<"|">>
        \o (IF books[b].author = None THEN <<>> ELSE Lower(books[b].author))

\* Every Work of S refers to a Group, and all to the same one.
SameGroup(S) ==
    /\ \A b \in S : books[b].group_id # NoId
    /\ \A b, o \in S : books[b].group_id = books[o].group_id

\* The scan has just answered.
Scanned == call.op = "detect_duplicates_in_library"

\* Work b is in cluster number i of the answer.
InCluster(b, i) == \E j \in 1..Len(ret.clusters[i].books) :
                       ret.clusters[i].books[j] = b

C25_DiscardedWhenOneGroup ==
    Scanned =>
       \A lib \in {InLibrary(call.library_id)} :
       \A key \in {[b \in lib |-> KeyOf(b)]} :
       \A b \in lib :
          LET class == {o \in lib : key[o] = key[b]}
              proposed == \E i \in 1..Len(ret.clusters) :
                              ret.clusters[i].key = key[b]
          IN Cardinality(class) >= 2 => (~proposed <=> SameGroup(class))

\* The scan has passed over the class of Works 1 and 2, which are in one
\* Group, and has answered with no cluster.
C25_Witness ==
    /\ Scanned /\ call.library_id = 1
    /\ KeyOf(1) = KeyOf(2)
    /\ books[1].group_id # NoId
    /\ SameGroup({b \in DOMAIN books : KeyOf(b) = KeyOf(1)})
    /\ ret.clusters = <<>>

\* The rank of Work b as the suggestion is said to be made: primary of the
\* Group it is in, number of Versions, sum of the sizes of its Versions,
\* and the time it was added, earlier first.
RankOf(b) ==
    <<IF /\ books[b].group_id \in DOMAIN groups
         /\ groups[books[b].group_id].primary_book_id = b
      THEN 1 ELSE 0,
      Cardinality({v \in versions : v.book_id = b}),
      SumSizes({v \in versions : v.book_id = b}),
      0 - added_at(b)>>

\* C26: in every cluster of the answer the suggested primary is a member
\* that no member outranks, the rank being (a) primary of an existing
\* Group, (b) most Versions, (c) largest sum of the sizes of its Versions,
\* (d) added earliest.
C26_SuggestedPrimaryMaximal ==
    Scanned =>
       \A i \in 1..Len(ret.clusters) :
          /\ InCluster(ret.clusters[i].suggested_primary_id, i)
          /\ \A o \in DOMAIN books :
                InCluster(o, i)
                   => ~TupleLess(RankOf(ret.clusters[i].suggested_primary_id),
                                 RankOf(o))

\* C27: the member list of Work w has one entry for every Work that refers
\* to the Group w refers to, and for no other; is_current is true of the
\* entry of w alone, is_primary of the entry of the Group's primary alone;
\* the list is empty when w does not exist or refers to no Group.
C27_MembersOf ==
    call.op = "get_grouped_books" =>
       LET w == call.book_id
           e == ret.entries
       IN IF w \notin DOMAIN books \/ books[w].group_id = NoId
          THEN e = <<>>
          ELSE /\ {e[i].id : i \in 1..Len(e)} = Members(books[w].group_id)
               /\ \A i, j \in 1..Len(e) : e[i].id = e[j].id => i = j
               /\ \A i \in 1..Len(e) :
                     /\ e[i].is_current <=> e[i].id = w
                     /\ e[i].is_primary
                           <=> e[i].id
                                 = groups[books[w].group_id].primary_book_id
               /\ Cardinality({i \in 1..Len(e) : e[i].is_current}) = 1

\* The member list of a Work that is not the primary of its Group of three
\* has three entries, one marked primary and another marked current.
C27_Witness ==
    /\ call.op = "get_grouped_books"
    /\ Len(ret.entries) = 3
    /\ \E i, j \in 1..3 :
          /\ i # j
          /\ ret.entries[i].is_primary /\ ~ret.entries[i].is_current
          /\ ret.entries[j].is_current /\ ~ret.entries[j].is_primary

-----------------------------------------------------------------------------
(* Harness of the normalizer: a title is drawn, normalized, normalized     *)
(* again, and put through the steps in the other order.                    *)

\* Characters of the titles drawn.
NormAlphabet == {"[", "]", "wan", "jie", "ben", " ", "_", "A"}

RECURSIVE StringsUpTo(_)
StringsUpTo(n) ==
    IF n = 0 THEN {<<>>}
    ELSE LET shorter == StringsUpTo(n - 1)
         IN shorter \cup {Append(s, c) : s \in {t \in shorter : Len(t) = n - 1},
                                          c \in NormAlphabet}

NormInputs == StringsUpTo(MaxTitleLen)

CatalogIdle ==
    /\ enabled = TRUE
    /\ books = <<>>
    /\ versions = {}
    /\ groups = <<>>
    /\ call = [op |-> "none"]
    /\ ret = [status |-> "none"]

InitNormalize ==
    /\ CatalogIdle
    /\ TxnIdle
    /\ norm_pc = "input"
    /\ norm_in \in NormInputs
    /\ norm_out = <<>>
    /\ norm_alt = <<>>

NormalizeTitle ==
    /\ norm_pc = "input"
    /\ norm_out' = <<normalize_title(norm_in)>>
    /\ norm_pc' = "once"
    /\ UNCHANGED <<norm_in, norm_alt>>
    /\ UNCHANGED <<catalogVars, txnVars>>

NormalizeAgain ==
    /\ norm_pc = "once"
    /\ norm_out' = Append(norm_out, normalize_title(norm_out[1]))
    /\ norm_pc' = "twice"
    /\ UNCHANGED <<norm_in, norm_alt>>
    /\ UNCHANGED <<catalogVars, txnVars>>

NormalizeSwapped ==
    /\ norm_pc = "twice"
    /\ norm_alt' = normalize_collapse_first(norm_in)
    /\ norm_pc' = "done"
    /\ UNCHANGED <<norm_in, norm_out>>
    /\ UNCHANGED <<catalogVars, txnVars>>

NextNormalize == NormalizeTitle \/ NormalizeAgain \/ NormalizeSwapped

SpecNormalize == InitNormalize /\ [][NextNormalize]_vars

-----------------------------------------------------------------------------
(* Claims about the normalizer *)

\* C6: normalize_title is idempotent: normalizing the result of
\* normalize_title again gives the same string, for every title.
C6_NormalizeIdempotent ==
    norm_pc \in {"twice", "done"} => norm_out[2] = norm_out[1]

\* C7: normalize_title does not depend on the order of its two stripping
\* steps: removing the markers and then collapsing the separators gives
\* the same string as collapsing first and removing the markers after.
C7_NormalizeOrderIndependent ==
    norm_pc = "done" => norm_alt = norm_out[1]

=============================================================================
